---- MODULE Spec2Model ----
(***************************************************************************)
(* The HTTP request handlers of server/main.py (the retrieval plugin       *)
(* without authentication) and the request/response models of              *)
(* models/api.py.  One request is in flight at a time; a handler runs      *)
(* atomically between two awaits, and each await on the datastore is a     *)
(* position (pc) at which the collaborator answers.                        *)
(***************************************************************************)
EXTENDS Integers, Sequences, FiniteSets, TLC

(* ------------------------------ bounds -------------------------------- *)
\* most queries in one request
MaxQueries == 2
\* most chunks in one QueryResult
MaxChunks == 1

SeqUpTo(S, n) == UNION {[1..k -> S] : k \in 0..n}

(* ------------------------- strings as token lists ---------------------- *)
\* main.py:183
Prefix == <<"Given the following extracts from a collection of building codes: ">>
\* main.py:186
Sep == <<". ">>
\* main.py:117,134,152,168,193,217
InternalServiceError == <<"Internal Service Error">>
\* main.py:206
OneOfRequired == <<"One of ids, filter, or delete_all is required">>
\* the body the framework sends when a handler lets an exception escape
FrameworkError == <<"Internal Server Error">>

(* ------------------------------ inputs -------------------------------- *)
DocIds == {"d1", "d2"}
ExcMsgs == {"e1", "e2"}
LookupErrs == {"e1"}
QueryTexts == {"q1", "q2"}
QuerySet == [query : QueryTexts]
Prompts == {<<>>, <<"p">>}
Completions == {<<>>, <<"c">>}
Files == {"f1", "f2"}
ChunkSet == {[id |-> "d1_0", text |-> <<"a">>], [id |-> "d2_0", text |-> <<"b", ". ">>]}

\* Optional[...] values: None is present = FALSE
NoneStr == [present |-> FALSE, val |-> <<>>]
NoneIds == [present |-> FALSE, val |-> <<>>]
NoneFilter == [present |-> FALSE, val |-> ""]
NoneBool == [present |-> FALSE, val |-> FALSE]
Some(v) == [present |-> TRUE, val |-> v]

\* the raw metadata form field: absent, empty, malformed, ill-typed, valid
MetadataInputs ==
    { NoneStr, Some(<<>>), Some(<<"{">>), Some(<<"x">>),
      Some(<<"{", "source", "bogus", "}">>),
      Some(<<"{", "}">>),
      Some(<<"{", "source", "email", "}">>),
      Some(<<"{", "author", "x", "}">>),
      Some(<<"{", "source", "chat", "author", "x", "}">>),
      Some(<<"{", "source", "file", "source">>) }

IdsInputs == {NoneIds, Some(<<>>), Some(<<"d1">>), Some(<<"d1", "d2">>)}
FilterInputs == {NoneFilter, Some("d1"), Some("d2")}
DeleteAllInputs == {NoneBool, Some(FALSE), Some(TRUE)}
DocumentsInputs == {<<>>, <<"d1">>, <<"d2">>, <<"d1", "d2">>}

(* --------------------------- models.models ----------------------------- *)
Sources == {"email", "file", "chat"}
NoField == "None"
DocumentMetadata(source, author) == [source |-> source, author |-> author]
ParseError == [source |-> "ParseError", author |-> "ParseError"]

RECURSIVE ParseFields(_, _)
ParseFields(toks, obj) ==
    IF toks = <<>> THEN obj
    ELSE IF Len(toks) < 2 THEN ParseError
    ELSE IF toks[1] = "source" /\ toks[2] \in Sources
         THEN ParseFields(SubSeq(toks, 3, Len(toks)), [obj EXCEPT !.source = toks[2]])
    ELSE IF toks[1] = "author"
         THEN ParseFields(SubSeq(toks, 3, Len(toks)), [obj EXCEPT !.author = toks[2]])
    ELSE ParseError

ParseRaw(raw) ==
    IF Len(raw) >= 2 /\ raw[1] = "{" /\ raw[Len(raw)] = "}"
    THEN ParseFields(SubSeq(raw, 2, Len(raw) - 1), DocumentMetadata(NoField, NoField))
    ELSE ParseError

(* ----------------------------- state ---------------------------------- *)
VARIABLES
    pc,            \* position of the handler in flight
    req,           \* the request being handled
    store,         \* ids of the documents the datastore holds
    metadata_obj,  \* upsert_file: the metadata the document is built with
    document,      \* upsert_file: the extracted document
    lookups,       \* datastore.query: the per-query lookups
    order,         \* datastore.query: indexes in completion order
    retrieved,     \* what datastore.query returned to the handler
    sent,          \* the message lists handed to the language model
    llm_out,       \* what the language model returned, if it returned
    calls,         \* per request: calls made to each collaborator
    raised,        \* per request: what each collaborator raised
    resp           \* the response the caller receives

vars == <<pc, req, store, metadata_obj, document, lookups, order, retrieved,
          sent, llm_out, calls, raised, resp>>

NoReq ==
    [endpoint |-> "none", file |-> "", metadata |-> NoneStr, documents |-> <<>>,
     queries |-> <<>>, prompt |-> <<>>, ids |-> NoneIds, filter |-> NoneFilter,
     delete_all |-> NoneBool]

NoCalls == [extract |-> 0, upsert |-> 0, query |-> 0, delete |-> 0, llm |-> 0]
NoRaised == [extract |-> "", upsert |-> "", query |-> "", delete |-> "", llm |-> "", ctor |-> ""]
NoMetadata == DocumentMetadata(NoField, NoField)
NoDocument == [file |-> "", metadata |-> NoMetadata]

NoResp ==
    [kind |-> "none", status |-> 0, detail |-> <<>>, ids |-> <<>>, results |-> <<>>,
     result |-> <<>>, success |-> FALSE]

Init ==
    /\ pc = "idle"
    /\ req = NoReq
    /\ store = {}
    /\ metadata_obj = NoMetadata
    /\ document = NoDocument
    /\ lookups = <<>>
    /\ order = <<>>
    /\ retrieved = <<>>
    /\ sent = <<>>
    /\ llm_out = NoneStr
    /\ calls = NoCalls
    /\ raised = NoRaised
    /\ resp = NoResp


(* ----------------------------- responses ------------------------------- *)
HTTPException(status_code, detail) ==
    [NoResp EXCEPT !.kind = "HTTPException", !.status = status_code, !.detail = detail]
\* an exception that leaves the handler: the framework answers 500
Unhandled == [NoResp EXCEPT !.kind = "unhandled", !.status = 500, !.detail = FrameworkError]
UpsertResponse(ids) == [NoResp EXCEPT !.kind = "UpsertResponse", !.status = 200, !.ids = ids]
QueryResponse(results) ==
    [NoResp EXCEPT !.kind = "QueryResponse", !.status = 200, !.results = results]
GPT4TestResponse(result) ==
    [NoResp EXCEPT !.kind = "GPT4TestResponse", !.status = 200, !.result = result]
AnswerResponse(result, sources) ==
    [NoResp EXCEPT !.kind = "AnswerResponse", !.status = 200, !.result = result,
                   !.results = sources]
DeleteResponse(success) ==
    [NoResp EXCEPT !.kind = "DeleteResponse", !.status = 200, !.success = success]

HumanMessage(content) == [role |-> "human", content |-> content]

\* Python truthiness of the optional request fields
TruthyStr(x) == x.present /\ Len(x.val) > 0
TruthyIds(x) == x.present /\ Len(x.val) > 0
TruthyFilter(x) == x.present
TruthyBool(x) == x.present /\ x.val

Fresh == pc = "idle"

\* the except blocks of the handlers make no further call
ExceptCallsRetry(c, name) == [c EXCEPT ![name] = @ + 1]
ExceptCalls(c, name) == c

(* ----------------------------- /upsert-file ---------------------------- *)
\* main.py:86-93 without the except clause
MetadataObjNoFallback(metadata) ==
    IF TruthyStr(metadata) THEN ParseRaw(metadata.val)
    ELSE DocumentMetadata("file", NoField)
\* main.py:86-93
MetadataObj(metadata) ==
    LET parsed == IF TruthyStr(metadata) THEN ParseRaw(metadata.val)
                  ELSE DocumentMetadata("file", NoField)
    IN  IF parsed = ParseError THEN DocumentMetadata("file", NoField) ELSE parsed

\* main.py:82-95, up to the await of get_document_from_file
upsert_file ==
    /\ Fresh
    /\ \E file \in Files, metadata \in MetadataInputs :
         /\ req' = [NoReq EXCEPT !.endpoint = "upsert_file", !.file = file,
                                 !.metadata = metadata]
         /\ metadata_obj' = MetadataObj(metadata)
         /\ IF MetadataObj(metadata) = ParseError
            THEN /\ pc' = "done"
                 /\ resp' = Unhandled
                 /\ calls' = NoCalls
            ELSE /\ pc' = "extract"
                 /\ resp' = NoResp
                 /\ calls' = [NoCalls EXCEPT !.extract = 1]
    /\ document' = NoDocument
    /\ lookups' = <<>> /\ order' = <<>> /\ retrieved' = <<>> /\ sent' = <<>> /\ llm_out' = NoneStr
    /\ raised' = NoRaised
    /\ UNCHANGED store

\* main.py:95-98: get_document_from_file returns; datastore.upsert is called
upsert_file_extracted ==
    /\ pc = "extract"
    /\ document' = [file |-> req.file, metadata |-> metadata_obj]
    /\ calls' = [calls EXCEPT !.upsert = @ + 1]
    /\ pc' = "upsert_file"
    /\ UNCHANGED <<req, store, metadata_obj, lookups, order, retrieved, sent, llm_out, raised, resp>>

\* main.py:95: get_document_from_file raises, outside any try block
upsert_file_extract_raises ==
    /\ pc = "extract"
    /\ \E e \in ExcMsgs : raised' = [raised EXCEPT !.extract = e]
    /\ resp' = Unhandled
    /\ pc' = "done"
    /\ UNCHANGED <<req, store, metadata_obj, document, lookups, order, retrieved, sent, llm_out, calls>>

\* main.py:98-99: datastore.upsert returns the id it gave the document
upsert_file_stored ==
    /\ pc = "upsert_file"
    /\ \E id \in DocIds :
         /\ store' = store \cup {id}
         /\ resp' = UpsertResponse(<<id>>)
    /\ pc' = "done"
    /\ UNCHANGED <<req, metadata_obj, document, lookups, order, retrieved, sent, llm_out, calls, raised>>

\* main.py:102
UpsertFileErrorDetail(e) == <<"str(", e, ")">>

\* main.py:100-102: datastore.upsert raises
upsert_file_store_raises ==
    /\ pc = "upsert_file"
    /\ \E e \in ExcMsgs :
         /\ raised' = [raised EXCEPT !.upsert = e]
         /\ resp' = HTTPException(500, UpsertFileErrorDetail(e))
    /\ calls' = ExceptCalls(calls, "upsert")
    /\ pc' = "done"
    /\ UNCHANGED <<req, store, metadata_obj, document, lookups, order, retrieved, sent, llm_out>>

(* ------------------------------- /upsert ------------------------------- *)
RECURSIVE SeqToSet(_)
SeqToSet(s) == IF s = <<>> THEN {} ELSE {Head(s)} \cup SeqToSet(Tail(s))

\* main.py:109-113, up to the await of datastore.upsert
upsert ==
    /\ Fresh
    /\ \E documents \in DocumentsInputs :
         req' = [NoReq EXCEPT !.endpoint = "upsert", !.documents = documents]
    /\ calls' = [NoCalls EXCEPT !.upsert = 1]
    /\ pc' = "upsert"
    /\ resp' = NoResp
    /\ metadata_obj' = NoMetadata /\ document' = NoDocument
    /\ lookups' = <<>> /\ order' = <<>> /\ retrieved' = <<>> /\ sent' = <<>> /\ llm_out' = NoneStr
    /\ raised' = NoRaised
    /\ UNCHANGED store

\* main.py:113-114
upsert_stored ==
    /\ pc = "upsert"
    /\ store' = store \cup SeqToSet(req.documents)
    /\ resp' = UpsertResponse(req.documents)
    /\ pc' = "done"
    /\ UNCHANGED <<req, metadata_obj, document, lookups, order, retrieved, sent, llm_out, calls, raised>>

\* main.py:115-117
upsert_store_raises ==
    /\ pc = "upsert"
    /\ \E e \in ExcMsgs : raised' = [raised EXCEPT !.upsert = e]
    /\ resp' = HTTPException(500, InternalServiceError)
    /\ calls' = ExceptCalls(calls, "upsert")
    /\ pc' = "done"
    /\ UNCHANGED <<req, store, metadata_obj, document, lookups, order, retrieved, sent, llm_out>>


(* ---------------------------- datastore.query -------------------------- *)
Pending == [state |-> "pending", results |-> <<>>, err |-> ""]
QueryResult(query, results) == [query |-> query.query, results |-> results]

\* one lookup per query, all dispatched at the call
Dispatch(queries) == [i \in 1..Len(queries) |-> Pending]

AllJoined == \A i \in 1..Len(lookups) : lookups[i].state # "pending"
AnyFailed == \E i \in 1..Len(lookups) : lookups[i].state = "failed"

\* the lookups that failed, in completion order
FailedInOrder == SelectSeq(order, LAMBDA i : lookups[i].state = "failed")
\* the exception datastore.query raises: that of the lookup that failed first
QueryException == lookups[Head(FailedInOrder)].err

\* the joined results, one per query, by the position of the query
Joined == [i \in 1..Len(lookups) |-> QueryResult(req.queries[i], lookups[i].results)]

\* a pending lookup completes, with its chunks or with an error; the
\* siblings are left as they are
lookup_completes ==
    /\ pc \in {"query_main", "query", "answer"}
    /\ \E i \in 1..Len(lookups) :
         /\ lookups[i].state = "pending"
         /\ \/ \E chunks \in SeqUpTo(ChunkSet, MaxChunks) :
                 lookups' = [lookups EXCEPT ![i] =
                                [state |-> "ok", results |-> chunks, err |-> ""]]
            \/ \E e \in LookupErrs :
                 lookups' = [lookups EXCEPT ![i] =
                                [state |-> "failed", results |-> <<>>, err |-> e]]
         /\ order' = Append(order, i)
    /\ UNCHANGED <<pc, req, store, metadata_obj, document, retrieved, sent, llm_out, calls, raised, resp>>

(* --------------------------- /query, /sub/query ------------------------ *)
StartQuery(endpoint, queries) ==
    /\ Fresh
    /\ req' = [NoReq EXCEPT !.endpoint = endpoint, !.queries = queries]
    /\ calls' = [NoCalls EXCEPT !.query = 1]
    /\ lookups' = Dispatch(queries)
    /\ order' = <<>>
    /\ pc' = endpoint
    /\ resp' = NoResp
    /\ metadata_obj' = NoMetadata /\ document' = NoDocument
    /\ retrieved' = <<>> /\ sent' = <<>> /\ llm_out' = NoneStr
    /\ raised' = NoRaised
    /\ UNCHANGED store

\* main.py:124-130, up to the await of datastore.query
query_main == \E queries \in SeqUpTo(QuerySet, MaxQueries) : StartQuery("query_main", queries)
\* main.py:142-148, up to the await of datastore.query
query == \E queries \in SeqUpTo(QuerySet, MaxQueries) : StartQuery("query", queries)

RECURSIVE Reverse(_)
Reverse(s) == IF s = <<>> THEN <<>> ELSE Append(Reverse(Tail(s)), Head(s))

\* the results handed to QueryResponse, reversed
QueryHandlerResultsReversed(results) == Reverse(results)
\* main.py:131,149: the results of datastore.query go to the response as they are
QueryHandlerResults(results) == results

\* main.py:128-131 and 146-149: datastore.query returns
query_returns ==
    /\ pc \in {"query_main", "query"}
    /\ AllJoined /\ ~AnyFailed
    /\ retrieved' = Joined
    /\ resp' = QueryResponse(QueryHandlerResults(Joined))
    /\ pc' = "done"
    /\ UNCHANGED <<req, store, metadata_obj, document, lookups, order, sent, llm_out, calls, raised>>

\* main.py:132-134 and 150-152: datastore.query raises
query_raises ==
    /\ pc \in {"query_main", "query"}
    /\ AllJoined /\ AnyFailed
    /\ raised' = [raised EXCEPT !.query = QueryException]
    /\ resp' = HTTPException(500, InternalServiceError)
    /\ calls' = ExceptCalls(calls, "query")
    /\ pc' = "done"
    /\ UNCHANGED <<req, store, metadata_obj, document, lookups, order, retrieved, sent, llm_out>>

(* ------------------------------- /gpt4Test ----------------------------- *)
\* main.py:159-168: the handler has no await; the model call is synchronous
gpt4Test ==
    /\ Fresh
    /\ \E prompt \in Prompts :
         /\ req' = [NoReq EXCEPT !.endpoint = "gpt4Test", !.prompt = prompt]
         /\ \/ \E e \in ExcMsgs :    \* ChatOpenAI(...) raises
                 /\ raised' = [NoRaised EXCEPT !.ctor = e]
                 /\ sent' = <<>> /\ llm_out' = NoneStr
                 /\ calls' = ExceptCalls(NoCalls, "llm")
                 /\ resp' = HTTPException(500, InternalServiceError)
            \/ \E e \in ExcMsgs :    \* chat(...) raises
                 /\ raised' = [NoRaised EXCEPT !.llm = e]
                 /\ sent' = << <<HumanMessage(prompt)>> >> /\ llm_out' = NoneStr
                 /\ calls' = ExceptCalls([NoCalls EXCEPT !.llm = 1], "llm")
                 /\ resp' = HTTPException(500, InternalServiceError)
            \/ \E res \in Completions :
                 /\ raised' = NoRaised
                 /\ sent' = << <<HumanMessage(prompt)>> >> /\ llm_out' = Some(res)
                 /\ calls' = [NoCalls EXCEPT !.llm = 1]
                 /\ resp' = GPT4TestResponse(res)
    /\ pc' = "done"
    /\ metadata_obj' = NoMetadata /\ document' = NoDocument
    /\ lookups' = <<>> /\ order' = <<>> /\ retrieved' = <<>>
    /\ UNCHANGED store

(* -------------------------------- /answer ------------------------------ *)
\* main.py:174-180, up to the await of datastore.query
answer ==
    /\ Fresh
    /\ \E queries \in SeqUpTo(QuerySet, MaxQueries), prompt \in Prompts :
         req' = [NoReq EXCEPT !.endpoint = "answer", !.queries = queries,
                              !.prompt = prompt]
    /\ calls' = [NoCalls EXCEPT !.query = 1]
    /\ lookups' = Dispatch(req'.queries)
    /\ order' = <<>>
    /\ pc' = "answer"
    /\ resp' = NoResp
    /\ metadata_obj' = NoMetadata /\ document' = NoDocument
    /\ retrieved' = <<>> /\ sent' = <<>> /\ llm_out' = NoneStr
    /\ raised' = NoRaised
    /\ UNCHANGED store

\* main.py:185-186
RECURSIVE AppendDocs(_, _)
AppendDocs(finalPrompt, docs) ==
    IF docs = <<>> THEN finalPrompt
    ELSE AppendDocs(finalPrompt \o Head(docs).text \o Sep, Tail(docs))

\* main.py:184-186
RECURSIVE AppendQueries(_, _)
AppendQueries(finalPrompt, ques) ==
    IF ques = <<>> THEN finalPrompt
    ELSE AppendQueries(AppendDocs(finalPrompt, Head(ques).results), Tail(ques))

\* the prompt built with the query results taken last to first
FinalPromptReversed(retrievedQueries, prompt) ==
    AppendQueries(Prefix, Reverse(retrievedQueries)) \o prompt

\* main.py:183-187
FinalPrompt(retrievedQueries, prompt) == AppendQueries(Prefix, retrievedQueries) \o prompt

\* an answer that leaves out the results that hold no chunk
AnswerReturnNonEmptySources(res, retrievedQueries) ==
    AnswerResponse(res, SelectSeq(retrievedQueries, LAMBDA r : r.results # <<>>))
\* main.py:190
AnswerReturn(res, retrievedQueries) == AnswerResponse(res, retrievedQueries)

\* an except block that answers with what was retrieved so far
AnswerExceptPartial(retrievedQueries) == AnswerResponse(<<>>, retrievedQueries)
\* main.py:191-193
AnswerExcept(retrievedQueries) == HTTPException(500, InternalServiceError)

\* main.py:178-193: datastore.query returns; the prompt is built and the
\* model is called synchronously
answer_retrieved ==
    /\ pc = "answer"
    /\ AllJoined /\ ~AnyFailed
    /\ retrieved' = Joined
    /\ \/ \E e \in ExcMsgs :    \* ChatOpenAI(...) raises
             /\ raised' = [raised EXCEPT !.ctor = e]
             /\ sent' = sent /\ llm_out' = NoneStr
             /\ calls' = ExceptCalls(calls, "llm")
             /\ resp' = AnswerExcept(Joined)
       \/ \E e \in ExcMsgs :    \* chat(...) raises
             /\ raised' = [raised EXCEPT !.llm = e]
             /\ sent' = Append(sent, <<HumanMessage(FinalPrompt(Joined, req.prompt))>>)
             /\ llm_out' = NoneStr
             /\ calls' = ExceptCalls([calls EXCEPT !.llm = @ + 1], "llm")
             /\ resp' = AnswerExcept(Joined)
       \/ \E res \in Completions :
             /\ raised' = raised
             /\ sent' = Append(sent, <<HumanMessage(FinalPrompt(Joined, req.prompt))>>)
             /\ llm_out' = Some(res)
             /\ calls' = [calls EXCEPT !.llm = @ + 1]
             /\ resp' = AnswerReturn(res, Joined)
    /\ pc' = "done"
    /\ UNCHANGED <<req, store, metadata_obj, document, lookups, order>>

\* main.py:178, 191-193: datastore.query raises
answer_query_raises ==
    /\ pc = "answer"
    /\ AllJoined /\ AnyFailed
    /\ raised' = [raised EXCEPT !.query = QueryException]
    /\ resp' = AnswerExcept(<<>>)
    /\ calls' = ExceptCalls(calls, "query")
    /\ pc' = "done"
    /\ UNCHANGED <<req, store, metadata_obj, document, lookups, order, retrieved, sent, llm_out>>

(* -------------------------------- /delete ------------------------------ *)
\* a guard that wants exactly one of the three
DeleteGuardRejectsUnlessOne(request) ==
    Cardinality({k \in {"ids", "filter", "delete_all"} :
        \/ k = "ids" /\ TruthyIds(request.ids)
        \/ k = "filter" /\ TruthyFilter(request.filter)
        \/ k = "delete_all" /\ TruthyBool(request.delete_all)}) # 1
\* main.py:203
DeleteGuardRejects(request) ==
    ~(TruthyIds(request.ids) \/ TruthyFilter(request.filter)
        \/ TruthyBool(request.delete_all))

\* a rejection raised as the generic error
DeleteRejectionGeneric == HTTPException(500, InternalServiceError)
\* main.py:204-207
DeleteRejection == HTTPException(400, OneOfRequired)

\* what the datastore holds after a delete that completed
DatastoreDelete(s, ids, filter, delete_all) ==
    IF TruthyBool(delete_all) THEN {}
    ELSE (s \ (IF ids.present THEN SeqToSet(ids.val) ELSE {}))
           \ (IF filter.present THEN {filter.val} ELSE {})

\* main.py:200-213, up to the await of datastore.delete
delete ==
    /\ Fresh
    /\ \E ids \in IdsInputs, filter \in FilterInputs, delete_all \in DeleteAllInputs :
         req' = [NoReq EXCEPT !.endpoint = "delete", !.ids = ids, !.filter = filter,
                              !.delete_all = delete_all]
    /\ IF DeleteGuardRejects(req')
       THEN /\ resp' = DeleteRejection
            /\ calls' = NoCalls
            /\ pc' = "done"
       ELSE /\ resp' = NoResp
            /\ calls' = [NoCalls EXCEPT !.delete = 1]
            /\ pc' = "delete"
    /\ metadata_obj' = NoMetadata /\ document' = NoDocument
    /\ lookups' = <<>> /\ order' = <<>> /\ retrieved' = <<>> /\ sent' = <<>> /\ llm_out' = NoneStr
    /\ raised' = NoRaised
    /\ UNCHANGED store

\* main.py:209-214: datastore.delete returns
delete_returns ==
    /\ pc = "delete"
    /\ \/ /\ store' = DatastoreDelete(store, req.ids, req.filter, req.delete_all)
          /\ resp' = DeleteResponse(TRUE)
       \/ /\ store' = store
          /\ resp' = DeleteResponse(FALSE)
    /\ pc' = "done"
    /\ UNCHANGED <<req, metadata_obj, document, lookups, order, retrieved, sent, llm_out, calls, raised>>

\* main.py:215-217: datastore.delete raises
delete_raises ==
    /\ pc = "delete"
    /\ \E e \in ExcMsgs : raised' = [raised EXCEPT !.delete = e]
    /\ resp' = HTTPException(500, InternalServiceError)
    /\ calls' = ExceptCalls(calls, "delete")
    /\ pc' = "done"
    /\ UNCHANGED <<req, store, metadata_obj, document, lookups, order, retrieved, sent, llm_out>>

(* ------------------------------ response ------------------------------- *)
\* the response goes to the caller and the handler's frame is dropped; the
\* datastore, a process-wide global (main.py:220-223), stays
respond ==
    /\ pc = "done"
    /\ pc' = "idle"
    /\ req' = NoReq
    /\ metadata_obj' = NoMetadata /\ document' = NoDocument
    /\ lookups' = <<>> /\ order' = <<>> /\ retrieved' = <<>> /\ sent' = <<>>
    /\ llm_out' = NoneStr
    /\ calls' = NoCalls /\ raised' = NoRaised /\ resp' = NoResp
    /\ UNCHANGED store

(* ---------------------------- specification ---------------------------- *)
Next ==
    \/ upsert_file
    \/ upsert_file_extracted
    \/ upsert_file_extract_raises
    \/ upsert_file_stored
    \/ upsert_file_store_raises
    \/ upsert
    \/ upsert_stored
    \/ upsert_store_raises
    \/ query_main
    \/ query
    \/ lookup_completes
    \/ query_returns
    \/ query_raises
    \/ gpt4Test
    \/ answer
    \/ answer_retrieved
    \/ answer_query_raises
    \/ delete
    \/ delete_returns
    \/ delete_raises
    \/ respond

Spec == Init /\ [][Next]_vars


(* ------------------------------- claims -------------------------------- *)
Discriminants(request) ==
    {k \in {"ids", "filter", "delete_all"} :
        \/ k = "ids" /\ request.ids.present /\ request.ids.val # <<>>
        \/ k = "filter" /\ request.filter.present
        \/ k = "delete_all" /\ request.delete_all = Some(TRUE)}

C2_RejectionIsClientError ==
    [][ (req'.endpoint = "delete" /\ pc' = "done") =>
          /\ calls'.delete = 0 =>
                /\ resp'.kind = "HTTPException" /\ resp'.status = 400
                /\ store' = store
                /\ Discriminants(req') = {}
          /\ Discriminants(req') = {} => resp'.status = 400
          /\ resp'.status = 500 => (raised'.delete # "" /\ calls'.delete = 1)
          /\ resp'.kind = "DeleteResponse" => calls'.delete = 1 ]_vars

\* a rejected delete request, answered while the store holds documents
C2_Witness ==
    /\ req.endpoint = "delete" /\ pc = "done"
    /\ calls.delete = 0 /\ resp.status = 400 /\ store # {}
    /\ req.ids = Some(<<>>) /\ req.delete_all = Some(FALSE)

\* the grounding text of the lookups from chunk j of lookup i on
RECURSIVE GroundingFrom(_, _)
GroundingFrom(i, j) ==
    IF i > Len(lookups) THEN <<>>
    ELSE IF j > Len(lookups[i].results) THEN GroundingFrom(i + 1, 1)
    ELSE lookups[i].results[j].text \o Sep \o GroundingFrom(i, j + 1)

C4_AnswerCarriesCompletionAndSources ==
    resp.kind = "AnswerResponse" =>
        /\ llm_out.present /\ resp.result = llm_out.val
        /\ Len(resp.results) = Len(req.queries)
        /\ \A i \in 1..Len(req.queries) :
              /\ resp.results[i].query = req.queries[i].query
              /\ resp.results[i].results = lookups[i].results

\* a successful answer over two queries, one of which retrieved nothing
C4_Witness ==
    /\ resp.kind = "AnswerResponse" /\ Len(req.queries) = 2
    /\ lookups[1].results # <<>> /\ lookups[2].results = <<>>
    /\ llm_out = Some(<<"c">>)

AnswerFailed == raised.query # "" \/ raised.ctor # "" \/ raised.llm # ""

\* C5: when retrieval or the model call fails during an answer request, the
\* request ends in an error and no AnswerResponse, result or sources is
\* returned; an AnswerResponse is returned only after the model completed.
C5_NoPartialAnswer ==
    (req.endpoint = "answer" /\ pc = "done") =>
        /\ AnswerFailed =>
              /\ resp.kind = "HTTPException" /\ resp.status = 500
              /\ resp.result = <<>> /\ resp.results = <<>>
        /\ resp.kind = "AnswerResponse" => (~AnswerFailed /\ llm_out.present)
        /\ resp.kind \in {"HTTPException", "AnswerResponse"}

\* the model call failed after chunks had been retrieved
C5_Witness ==
    /\ req.endpoint = "answer" /\ pc = "done"
    /\ raised.llm # "" /\ retrieved # <<>> /\ retrieved[1].results # <<>>
    /\ resp.status = 500

DefaultMetadata == [source |-> "file", author |-> "None"]

\* the metadata form fields that parse, and what they parse to
C6_Parses ==
    { <<Some(<<"{", "}">>), [source |-> "None", author |-> "None"]>>,
      <<Some(<<"{", "source", "email", "}">>), [source |-> "email", author |-> "None"]>>,
      <<Some(<<"{", "author", "x", "}">>), [source |-> "None", author |-> "x"]>>,
      <<Some(<<"{", "source", "chat", "author", "x", "}">>),
        [source |-> "chat", author |-> "x"]>> }

\* C6: on file upload, metadata that is absent, empty or does not parse is
\* replaced by the default object (source "file") and the upload goes on to
\* extraction and upsert as with valid metadata; metadata that parses is
\* used as parsed; metadata never makes the upload fail.
C6_MetadataFallback ==
    req.endpoint = "upsert_file" =>
        /\ \A p \in C6_Parses : req.metadata = p[1] => metadata_obj = p[2]
        /\ (\A p \in C6_Parses : req.metadata # p[1]) => metadata_obj = DefaultMetadata
        /\ calls.extract = 1
        /\ pc \in {"upsert_file", "done"} /\ raised.extract = "" =>
              (calls.upsert = 1 /\ document.metadata = metadata_obj)
        /\ resp.status \notin {0, 200} => (raised.extract # "" \/ raised.upsert # "")

\* an upload with ill-typed metadata, stored with the default metadata
C6_Witness ==
    /\ req.endpoint = "upsert_file" /\ pc = "done"
    /\ req.metadata = Some(<<"{", "source", "bogus", "}">>)
    /\ resp.kind = "UpsertResponse" /\ document.metadata = DefaultMetadata

AnyRaised == \E k \in DOMAIN raised : raised[k] # ""

\* C7, as claimed: every internal failure of every endpoint is caught in the
\* handler and answered 500 with the same opaque message, whatever the
\* exception says.
C7_FailuresAreOpaque500 ==
    (pc = "done" /\ AnyRaised) =>
        /\ resp.kind = "HTTPException"
        /\ resp.status = 500
        /\ resp.detail = <<"Internal Service Error">>

C9_SiblingResultsReturned ==
    (req.endpoint \in {"query_main", "query"} /\ pc = "done") =>
        \A i \in 1..Len(lookups) :
            lookups[i].state = "ok" =>
                /\ resp.kind = "QueryResponse"
                /\ \E k \in 1..Len(resp.results) :
                      /\ resp.results[k].query = req.queries[i].query
                      /\ resp.results[k].results = lookups[i].results

\* C10: no handler retries: in one request each of datastore.upsert,
\* datastore.query, datastore.delete and the model is called at most once,
\* and once a call has failed no further store or model call is made.
C10_NoRetries ==
    /\ \A k \in DOMAIN calls : calls[k] <= 1
    /\ raised.extract # "" => calls.upsert = 0
    /\ (raised.query # "" \/ raised.ctor # "") => calls.llm = 0
    /\ calls.upsert + calls.query + calls.delete + calls.llm
          <= (IF req.endpoint = "answer" THEN 2 ELSE 1)

\* a request answered after its one store call failed
C10_Witness ==
    /\ pc = "done" /\ raised.delete # "" /\ calls.delete = 1 /\ resp.status = 500

====
